---- MODULE Spec2Model ----
(***************************************************************************)
(* A model of the DHCPv4 client of this repository: the send/read worker  *)
(* of Client.SendAndRead with its retry policy, the SendAndReadOne caller, *)
(* and the options codec (Options.Marshal / Options.Unmarshal).            *)
(***************************************************************************)
EXTENDS Integers, Sequences, FiniteSets, TLC

(***************************************************************************)
(* Bounds of the model.                                                    *)
(***************************************************************************)
\* largest bounded retry count tried (c.retry ranges over -1..MaxRetry)
MaxRetry == 2
\* ghost counters (writes, timer expiries, loop counter) saturate here
MaxCount == 4
\* matching datagrams the connection may yield in one operation
MaxMatches == 11
\* largest TransactionID value on the wire
MaxXid == 1
\* bytes Marshal may write before the model stops following it
MaxWire == 620
\* longest input buffer given to Unmarshal
MaxBufLen == 5

(***************************************************************************)
(* Program constants.                                                      *)
(***************************************************************************)
\* make(chan *ClientPacket, 10)
OutCap == 10
\* make(chan *ClientError, 1)
ErrCap == 1

VARIABLES
    retry,        \* c.retry
    xid,          \* p.TransactionID of the outgoing packet
    mode,         \* "one": the caller is SendAndReadOne; "stream": a caller of SendAndRead
    wpc,          \* position of the worker goroutine (ParallelSendAndRead)
    i,            \* loop counter of retryFn
    numPackets,   \* numPackets of the running attempt
    timeoutCtx,   \* "none", "live", or timeoutCtx.Err() once it is done
    ctxErr,       \* "none" or ctx.Err() of the parent context
    out,          \* buffered contents of the channel out
    outClosed,    \* close(out) has run
    errCh,        \* buffered contents of the channel errCh
    errClosed,    \* close(errCh) has run
    pending,      \* clientPkt of a blocked delivery (<<>> when none)
    ret,          \* the *ClientError sendAndRead returned (NilErr for nil)
    cpc,          \* position of the caller
    response,     \* SendAndReadOne: what <-out gave (NilPkt when out was closed)
    result,       \* SendAndReadOne: what it returned
    taken,        \* ghost: packets the caller received from out, in order
    nmatched,     \* ghost: matching datagrams read so far
    writes,       \* ghost: successful WriteTo calls (saturating)
    timeouts,     \* ghost: attempt timers that expired (saturating)
    errsSent,     \* ghost: sends on errCh
    sentClosed,   \* ghost: a send on out happened after close(out)
    att,          \* ghost: what the running attempt has read
    last,         \* ghost: how the most recent attempt ended
    lastRead,     \* ghost: what the last ReadFrom returned, "match-blocked" once a
                  \* match went out by the blocking send ("none" when the loop reads again)
    task,         \* codec: "marshal", "unmarshal", or "none" while the client runs
    opts,         \* codec: the Options map given to Marshal
    codes,        \* Marshal: the codes of o.sortedKeys() not yet finished
    data,         \* Marshal: data, what is left of the current code's value
    b,            \* Marshal: the bytes written to the buffer so far
    mpc,          \* Marshal: "loop" while it runs, "done" once it returned
    emitted,      \* ghost: times the loop body ran for the current code
    ubuf,         \* Unmarshal: the bytes of the input buffer
    upc,          \* Unmarshal: "call" before it ran, "done" after
    ures,         \* Unmarshal: the error returned and the map *o
    offer,        \* RequestPacket: the packet given to it (an offer or an ack)
    reply,        \* RequestPacket: what the identifier `reply` of its body denotes
    packet,       \* RequestPacket: the packet it returned
    rpc           \* RequestPacket: "call" before it ran, "done" after

vars == <<retry, xid, mode, wpc, i, numPackets, timeoutCtx, ctxErr, out,
          outClosed, errCh, errClosed, pending, ret, cpc, response, result,
          taken, nmatched, writes, timeouts, errsSent, sentClosed, att, last,
          lastRead, task, opts, codes, data, b, mpc, emitted, ubuf, upc, ures,
          offer, reply, packet, rpc>>

\* what no step of the client changes: its configuration and the codec's state
codecVars == <<task, opts, codes, data, b, mpc, emitted, ubuf, upc, ures>>
requestVars == <<offer, reply, packet, rpc>>
config == <<retry, xid, mode, codecVars, requestVars>>

Retries == -1 .. MaxRetry
Xids == 0 .. MaxXid
Min(x, y) == IF x < y THEN x ELSE y
Inc(n) == Min(n + 1, MaxCount)

\* A datagram as ReadFrom hands it over: whether it decodes, and its TransactionID.
Datagrams == [ok : BOOLEAN, xid : Xids]

\* ghost records: junk = a malformed or foreign datagram was read, m = matching
\* datagrams read, res = what fn() returned, by = what ended the attempt,
\* n = numPackets at that point
NoAttempt == [junk |-> FALSE, m |-> 0]
NoLast == [res |-> "none", junk |-> FALSE, m |-> 0, by |-> "none", n |-> 0]

(***************************************************************************)
(* Pieces of the code that the actions below use.                          *)
(***************************************************************************)
\* an Options map with no entry
EmptyOptions == [c \in {} |-> <<>>]

\* a nil *ClientError, and a nil *ClientPacket
NilErr == [Interface |-> "nil", Err |-> "nil"]
NilPkt == [xid |-> -1, seq |-> 0]

newClientErr(err) ==
    IF err = "nil" THEN NilErr ELSE [Interface |-> "iface", Err |-> err]

\* for i := 0; i < c.retry || c.retry < 0; i++
RetryCond(ii, r) == ii < r \/ r < 0

\* switch err := fn(); err { case nil / case context.DeadlineExceeded / default }
RetryDecisionAll(e) == IF e = "nil" THEN "return" ELSE "retry"
RetryDecisionCanceled(e) ==
    IF e = "nil" THEN "return"
    ELSE IF e \in {"DeadlineExceeded", "Canceled"} THEN "retry"
    ELSE "return"
RetryDecision(e) ==
    IF e = "nil" THEN "return"
    ELSE IF e = "DeadlineExceeded" THEN "retry"
    ELSE "return"

\* case <-timeoutCtx.Done(): if numPackets > 0 { return nil }; return timeoutCtx.Err()
AttemptResultErr(n, e) == e
AttemptResult(n, e) == IF n > 0 THEN "nil" ELSE e

\* pkt.UnmarshalBinary(b[:n]) succeeded and pkt.TransactionID == p.TransactionID
MatchesAnyDecoded(d, x) == d.ok
Matches(d, x) == d.ok /\ d.xid = x

\* context.WithTimeout(ctx, c.timeout): done at once when the parent is done
WithTimeout(parent) == IF parent = "none" THEN "live" ELSE parent

\* the client's state before the worker goroutine has taken a step
ClientFresh ==
    /\ i = 0
    /\ numPackets = 0
    /\ timeoutCtx = "none"
    /\ ctxErr = "none"
    /\ out = <<>>
    /\ outClosed = FALSE
    /\ errCh = <<>>
    /\ errClosed = FALSE
    /\ pending = <<>>
    /\ ret = NilErr
    /\ response = NilPkt
    /\ result = [packet |-> NilPkt, err |-> NilErr, panic |-> FALSE]
    /\ taken = <<>>
    /\ nmatched = 0
    /\ writes = 0
    /\ timeouts = 0
    /\ errsSent = 0
    /\ sentClosed = FALSE
    /\ att = NoAttempt
    /\ last = NoLast
    /\ lastRead = "none"

\* the codec is not in use
CodecIdle ==
    /\ task = "none"
    /\ opts = EmptyOptions
    /\ codes = <<>>
    /\ data = <<>>
    /\ b = <<>>
    /\ mpc = "idle"
    /\ emitted = 0
    /\ ubuf = <<>>
    /\ upc = "idle"
    /\ ures = [err |-> "nil", o |-> EmptyOptions]

\* dhcp4.NewPacket(dhcp4.BootRequest): a packet with every field at its zero value
NewPacket ==
    [TransactionID |-> 0, CHAddr |-> "", CIAddr |-> <<>>, SIAddr |-> <<>>,
     YIAddr |-> <<>>, Broadcast |-> FALSE, Options |-> EmptyOptions]

\* RequestPacket is not in use
RequestIdle ==
    /\ offer = NewPacket
    /\ reply = [TransactionID |-> 0]
    /\ packet = NewPacket
    /\ rpc = "idle"

\* SendAndRead (mode "stream") or SendAndReadOne (mode "one") has just started
\* the worker with go c.ParallelSendAndRead(ctx, dest, p, out, errOut)
Init ==
    /\ retry \in Retries
    /\ xid \in Xids
    /\ mode \in {"one", "stream"}
    /\ wpc = "MarshalBinary"
    /\ cpc = IF mode = "one" THEN "recvOut" ELSE "stream"
    /\ ClientFresh
    /\ CodecIdle
    /\ RequestIdle

callerVars == <<cpc, response, result, taken, lastRead>>
chanVars == <<out, outClosed, errCh, errClosed, errsSent, sentClosed>>

(***************************************************************************)
(* The worker: ParallelSendAndRead -> sendAndRead -> retryFn -> attempt.   *)
(***************************************************************************)

\* fn() returned e to retryFn: the deferred cancel() of timeoutCtx runs and
\* retryFn's switch decides between returning and the next iteration.
FnReturn(e, by) ==
    /\ timeoutCtx' = "none"
    /\ last' = [res |-> e, junk |-> att.junk, m |-> att.m,
                by |-> by, n |-> numPackets]
    /\ IF RetryDecision(e) = "retry"
       THEN /\ i' = Inc(i)
            /\ wpc' = "retryFn"
            /\ ret' = ret
       ELSE /\ i' = i
            /\ wpc' = "closeOut"
            /\ ret' = newClientErr(e)

\* pkt, err := p.MarshalBinary()
MarshalBinaryUnchecked ==
    /\ wpc = "MarshalBinary"
    /\ \E ok \in BOOLEAN :
         IF ok THEN wpc' = "retryFn" /\ ret' = ret
         ELSE wpc' = "retryFn" /\ ret' = newClientErr("EncodeErr")
    /\ UNCHANGED <<config, i, numPackets, timeoutCtx, ctxErr, pending,
                   nmatched, writes, timeouts, att, last>>
    /\ UNCHANGED callerVars /\ UNCHANGED chanVars
MarshalBinary ==
    /\ wpc = "MarshalBinary"
    /\ \E ok \in BOOLEAN :
         IF ok THEN wpc' = "retryFn" /\ ret' = ret
         ELSE wpc' = "closeOut" /\ ret' = newClientErr("EncodeErr")
    /\ UNCHANGED <<config, i, numPackets, timeoutCtx, ctxErr, pending,
                   nmatched, writes, timeouts, att, last>>
    /\ UNCHANGED callerVars /\ UNCHANGED chanVars

\* retryFn ending with `return nil` once its loop is over
retryFnNilWhenExhausted ==
    /\ wpc = "retryFn"
    /\ IF RetryCond(i, retry)
       THEN wpc' = "WriteTo" /\ ret' = ret
       ELSE wpc' = "closeOut" /\ ret' = newClientErr("nil")
    /\ UNCHANGED <<config, i, numPackets, timeoutCtx, ctxErr, pending,
                   nmatched, writes, timeouts, att, last>>
    /\ UNCHANGED callerVars /\ UNCHANGED chanVars

\* the loop test of retryFn, and its final return context.DeadlineExceeded
retryFn ==
    /\ wpc = "retryFn"
    /\ IF RetryCond(i, retry)
       THEN wpc' = "WriteTo" /\ ret' = ret
       ELSE wpc' = "closeOut" /\ ret' = newClientErr("DeadlineExceeded")
    /\ UNCHANGED <<config, i, numPackets, timeoutCtx, ctxErr, pending,
                   nmatched, writes, timeouts, att, last>>
    /\ UNCHANGED callerVars /\ UNCHANGED chanVars

\* c.conn.WriteTo(pkt, dest), then numPackets = 0 and context.WithTimeout
WriteTo ==
    /\ wpc = "WriteTo"
    /\ \E ok \in BOOLEAN :
         IF ok
         THEN /\ writes' = Inc(writes)
              /\ numPackets' = 0
              /\ timeoutCtx' = WithTimeout(ctxErr)
              /\ att' = NoAttempt
              /\ wpc' = "select"
              /\ UNCHANGED <<i, ret, last>>
         ELSE /\ FnReturn("WriteErr", "write")
              /\ UNCHANGED <<writes, numPackets, att>>
    /\ UNCHANGED <<config, ctxErr, pending, nmatched, timeouts>>
    /\ UNCHANGED callerVars /\ UNCHANGED chanVars

\* select { case <-timeoutCtx.Done(): ...; default: } at the head of the read loop
SelectDone ==
    /\ wpc = "select"
    /\ IF timeoutCtx # "live"
       THEN FnReturn(AttemptResult(numPackets, timeoutCtx), timeoutCtx)
       ELSE wpc' = "read" /\ UNCHANGED <<i, ret, timeoutCtx, last>>
    /\ UNCHANGED <<config, numPackets, ctxErr, pending,
                   nmatched, writes, timeouts, att>>
    /\ lastRead' = IF wpc' = "read" THEN "none" ELSE lastRead
    /\ UNCHANGED <<cpc, response, result, taken>> /\ UNCHANGED chanVars

\* SetReadDeadline, ReadFrom, UnmarshalBinary, the TransactionID test and the
\* non-blocking send on out
ReadFrom ==
    /\ wpc = "read"
    /\ \/ \* a read timeout at the short deadline: continue
          /\ wpc' = "select"
          /\ lastRead' = "timeout"
          /\ UNCHANGED <<i, ret, timeoutCtx, last, numPackets, nmatched, att,
                         pending, out, sentClosed>>
       \/ \* a hard read error
          /\ FnReturn("ReadErr", "read")
          /\ lastRead' = "error"
          /\ UNCHANGED <<numPackets, nmatched, att, pending, out, sentClosed>>
       \/ \E d \in Datagrams :
            /\ (d.ok /\ d.xid = xid) => nmatched < MaxMatches
            /\ att' = IF d.ok /\ d.xid = xid
                      THEN [att EXCEPT !.m = @ + 1]
                      ELSE [att EXCEPT !.junk = TRUE]
            /\ lastRead' = IF ~d.ok THEN "malformed"
                           ELSE IF d.xid # xid THEN "foreign" ELSE "match"
            /\ nmatched' = IF d.ok /\ d.xid = xid THEN nmatched + 1 ELSE nmatched
            /\ UNCHANGED <<i, ret, timeoutCtx, last>>
            /\ IF ~Matches(d, xid)
               THEN /\ wpc' = "select"
                    /\ UNCHANGED <<numPackets, pending, out, sentClosed>>
               ELSE LET clientPkt == [xid |-> d.xid, seq |-> nmatched'] IN
                    /\ numPackets' = numPackets + 1
                    /\ IF Len(out) < OutCap
                       THEN /\ out' = Append(out, clientPkt)
                            /\ sentClosed' = (sentClosed \/ outClosed)
                            /\ pending' = pending
                            /\ wpc' = "select"
                       ELSE /\ pending' = <<clientPkt>>
                            /\ wpc' = "deliver"
                            /\ UNCHANGED <<out, sentClosed>>
    /\ UNCHANGED <<config, ctxErr, writes, timeouts>>
    /\ UNCHANGED <<cpc, response, result, taken>>
    /\ UNCHANGED <<outClosed, errCh, errClosed, errsSent>>

\* select { case <-ctx.Done(): return ctx.Err(); case out <- clientPkt: }
DeliverBlockingOnly ==
    /\ wpc = "deliver"
    /\ Len(out) < OutCap
    /\ out' = Append(out, pending[1])
    /\ sentClosed' = (sentClosed \/ outClosed)
    /\ pending' = <<>>
    /\ wpc' = "select"
    /\ lastRead' = "match-blocked"
    /\ UNCHANGED <<i, ret, timeoutCtx, last>>
    /\ UNCHANGED <<config, numPackets, ctxErr, nmatched, writes, timeouts, att>>
    /\ UNCHANGED <<cpc, response, result, taken>>
    /\ UNCHANGED <<outClosed, errCh, errClosed, errsSent>>
\* the blocking send racing timeoutCtx.Done() instead of ctx.Done()
DeliverRacingTimeout ==
    /\ wpc = "deliver"
    /\ \/ /\ timeoutCtx # "live"
          /\ FnReturn(timeoutCtx, "deliver")
          /\ pending' = <<>>
          /\ lastRead' = lastRead
          /\ UNCHANGED <<out, sentClosed>>
       \/ /\ Len(out) < OutCap
          /\ out' = Append(out, pending[1])
          /\ sentClosed' = (sentClosed \/ outClosed)
          /\ pending' = <<>>
          /\ wpc' = "select"
          /\ lastRead' = "match-blocked"
          /\ UNCHANGED <<i, ret, timeoutCtx, last>>
    /\ UNCHANGED <<config, numPackets, ctxErr, nmatched, writes, timeouts, att>>
    /\ UNCHANGED <<cpc, response, result, taken>>
    /\ UNCHANGED <<outClosed, errCh, errClosed, errsSent>>
\* the blocking send handing its packet over ahead of the buffered ones
DeliverAtFront ==
    /\ wpc = "deliver"
    /\ \/ /\ ctxErr # "none"
          /\ FnReturn(ctxErr, "deliver")
          /\ pending' = <<>>
          /\ lastRead' = lastRead
          /\ UNCHANGED <<out, sentClosed>>
       \/ /\ Len(out) < OutCap
          /\ out' = <<pending[1]>> \o out
          /\ sentClosed' = (sentClosed \/ outClosed)
          /\ pending' = <<>>
          /\ wpc' = "select"
          /\ lastRead' = "match-blocked"
          /\ UNCHANGED <<i, ret, timeoutCtx, last>>
    /\ UNCHANGED <<config, numPackets, ctxErr, nmatched, writes, timeouts, att>>
    /\ UNCHANGED <<cpc, response, result, taken>>
    /\ UNCHANGED <<outClosed, errCh, errClosed, errsSent>>
Deliver ==
    /\ wpc = "deliver"
    /\ \/ /\ ctxErr # "none"
          /\ FnReturn(ctxErr, "deliver")
          /\ pending' = <<>>
          /\ lastRead' = lastRead
          /\ UNCHANGED <<out, sentClosed>>
       \/ /\ Len(out) < OutCap
          /\ out' = Append(out, pending[1])
          /\ sentClosed' = (sentClosed \/ outClosed)
          /\ pending' = <<>>
          /\ wpc' = "select"
          /\ lastRead' = "match-blocked"
          /\ UNCHANGED <<i, ret, timeoutCtx, last>>
    /\ UNCHANGED <<config, numPackets, ctxErr, nmatched, writes, timeouts, att>>
    /\ UNCHANGED <<cpc, response, result, taken>>
    /\ UNCHANGED <<outClosed, errCh, errClosed, errsSent>>

\* defer close(out) of sendAndRead
CloseOutUnlessEncodeErr ==
    /\ wpc = "closeOut"
    /\ outClosed' = IF ret.Err = "EncodeErr" THEN outClosed ELSE TRUE
    /\ wpc' = "sendErr"
    /\ UNCHANGED <<config, i, numPackets, timeoutCtx, ctxErr, pending, ret,
                   nmatched, writes, timeouts, att, last>>
    /\ UNCHANGED callerVars
    /\ UNCHANGED <<out, errCh, errClosed, errsSent, sentClosed>>
CloseOut ==
    /\ wpc = "closeOut"
    /\ outClosed' = TRUE
    /\ wpc' = "sendErr"
    /\ UNCHANGED <<config, i, numPackets, timeoutCtx, ctxErr, pending, ret,
                   nmatched, writes, timeouts, att, last>>
    /\ UNCHANGED callerVars
    /\ UNCHANGED <<out, errCh, errClosed, errsSent, sentClosed>>

\* if err := c.sendAndRead(...); err != nil { errCh <- err }
SendErr ==
    /\ wpc = "sendErr"
    /\ IF ret # NilErr
       THEN /\ Len(errCh) < ErrCap
            /\ errCh' = Append(errCh, ret)
            /\ errsSent' = errsSent + 1
       ELSE UNCHANGED <<errCh, errsSent>>
    /\ wpc' = "closeErr"
    /\ UNCHANGED <<config, i, numPackets, timeoutCtx, ctxErr, pending, ret,
                   nmatched, writes, timeouts, att, last>>
    /\ UNCHANGED callerVars
    /\ UNCHANGED <<out, outClosed, errClosed, sentClosed>>

\* defer close(errCh) of ParallelSendAndRead
CloseErr ==
    /\ wpc = "closeErr"
    /\ errClosed' = TRUE
    /\ wpc' = "done"
    /\ UNCHANGED <<config, i, numPackets, timeoutCtx, ctxErr, pending, ret,
                   nmatched, writes, timeouts, att, last>>
    /\ UNCHANGED callerVars
    /\ UNCHANGED <<out, outClosed, errCh, errsSent, sentClosed>>

Worker ==
    \/ MarshalBinary
    \/ retryFn
    \/ WriteTo
    \/ SelectDone
    \/ ReadFrom
    \/ Deliver
    \/ CloseOut
    \/ SendErr
    \/ CloseErr

(***************************************************************************)
(* Time and the contexts.                                                  *)
(***************************************************************************)
workerVars == <<config, wpc, i, numPackets, pending, ret,
                nmatched, writes, att, last>>

\* the attempt timer of context.WithTimeout(ctx, c.timeout) expires
TimerFire ==
    /\ timeoutCtx = "live"
    /\ timeoutCtx' = "DeadlineExceeded"
    /\ timeouts' = Inc(timeouts)
    /\ UNCHANGED workerVars /\ UNCHANGED callerVars /\ UNCHANGED chanVars
    /\ UNCHANGED ctxErr

\* the parent ctx ends with error e; a live timeoutCtx ends with it
CtxEnd(e) ==
    /\ ctxErr = "none"
    /\ ctxErr' = e
    /\ timeoutCtx' = IF timeoutCtx = "live" THEN e ELSE timeoutCtx

\* a caller of SendAndRead cancels ctx
Cancel ==
    /\ mode = "stream"
    /\ CtxEnd("Canceled")
    /\ UNCHANGED workerVars /\ UNCHANGED callerVars /\ UNCHANGED chanVars
    /\ UNCHANGED timeouts

\* the ctx given to SendAndRead reaches a deadline of its own
CtxDeadline ==
    /\ mode = "stream"
    /\ CtxEnd("DeadlineExceeded")
    /\ UNCHANGED workerVars /\ UNCHANGED callerVars /\ UNCHANGED chanVars
    /\ UNCHANGED timeouts

\* a caller of SendAndRead receives one packet from out
Take ==
    /\ mode = "stream"
    /\ Len(out) > 0
    /\ taken' = Append(taken, Head(out))
    /\ out' = Tail(out)
    /\ UNCHANGED workerVars
    /\ UNCHANGED <<timeoutCtx, ctxErr, timeouts, cpc, response, result, lastRead>>
    /\ UNCHANGED <<outClosed, errCh, errClosed, errsSent, sentClosed>>

(***************************************************************************)
(* The caller SendAndReadOne.                                              *)
(***************************************************************************)
\* response, ok := <-out
RecvOut ==
    /\ cpc = "recvOut"
    /\ \/ /\ Len(out) > 0
          /\ response' = Head(out)
          /\ taken' = Append(taken, Head(out))
          /\ out' = Tail(out)
          /\ cpc' = "cancel"
       \/ /\ Len(out) = 0 /\ outClosed
          /\ response' = NilPkt
          /\ cpc' = "recvErr"
          /\ UNCHANGED <<out, taken>>
    /\ UNCHANGED workerVars
    /\ UNCHANGED <<timeoutCtx, ctxErr, timeouts, result, lastRead>>
    /\ UNCHANGED <<outClosed, errCh, errClosed, errsSent, sentClosed>>

\* if ok { cancel() }
CallerCancel ==
    /\ cpc = "cancel"
    /\ CtxEnd("Canceled")
    /\ cpc' = "recvErr"
    /\ UNCHANGED workerVars /\ UNCHANGED chanVars
    /\ UNCHANGED <<timeouts, response, result, taken, lastRead>>

\* SendAndReadOne returning without the receive from errCh
RecvErrNoWait ==
    /\ cpc = "recvErr"
    /\ result' = [packet |-> response, err |-> NilErr,
                   panic |-> (response = NilPkt)]
    /\ cpc' = "returned"
    /\ UNCHANGED workerVars
    /\ UNCHANGED <<timeoutCtx, ctxErr, timeouts, response, taken, lastRead>>
    /\ UNCHANGED chanVars

\* if err, ok := <-errCh; ok && err != nil { return nil, err }
\* return response.Packet, nil
RecvErr ==
    /\ cpc = "recvErr"
    /\ \/ /\ Len(errCh) > 0
          /\ result' = [packet |-> NilPkt, err |-> Head(errCh), panic |-> FALSE]
          /\ errCh' = Tail(errCh)
       \/ /\ Len(errCh) = 0 /\ errClosed
          /\ result' = [packet |-> response, err |-> NilErr,
                         panic |-> (response = NilPkt)]
          /\ errCh' = errCh
    /\ cpc' = "returned"
    /\ UNCHANGED workerVars
    /\ UNCHANGED <<timeoutCtx, ctxErr, timeouts, response, taken, lastRead>>
    /\ UNCHANGED <<out, outClosed, errClosed, errsSent, sentClosed>>

SendAndReadOne == RecvOut \/ CallerCancel \/ RecvErr

\* Request(): the first SendAndReadOne returned the offer without error, and
\* the second step begins: c.SendAndReadOne(c.RequestPacket(offer)) starts its
\* own worker, which writes the Request packet
Request ==
    /\ mode = "one"
    /\ cpc = "returned"
    /\ result.err = NilErr /\ ~result.panic
    /\ cpc' = "secondStep"
    /\ UNCHANGED workerVars /\ UNCHANGED chanVars
    /\ UNCHANGED <<timeoutCtx, ctxErr, timeouts, response, result, taken, lastRead>>

Next ==
    \/ Worker
    \/ TimerFire
    \/ Cancel
    \/ CtxDeadline
    \/ Take
    \/ SendAndReadOne
    \/ Request

Spec == Init /\ [][Next]_vars

\* the Go scheduler runs the worker goroutine whenever it can take a step
FairSpec == Spec /\ WF_vars(Worker)

(***************************************************************************)
(* The options codec.                                                      *)
(***************************************************************************)
\* Pad and End, the keys of zeroLengthOptions
Pad == 0
End == 255
zeroLengthOptions == {Pad, End}
\* math.MaxUint8
MaxUint8 == 255

\* o.AddRaw(key, value): o[key] = append(o[key], value...)
AddRaw(o, key, value) ==
    IF key \in DOMAIN o
    THEN [o EXCEPT ![key] = @ \o value]
    ELSE [c \in DOMAIN o \cup {key} |-> IF c = key THEN value ELSE o[c]]

\* o.sortedKeys(): the codes of o in ascending order
RECURSIVE SortSet(_)
SortSet(S) ==
    IF S = {} THEN <<>>
    ELSE LET m == CHOOSE x \in S : \A y \in S : x <= y
         IN <<m>> \o SortSet(S \ {m})
sortedKeys(o) == SortSet(DOMAIN o)

\* Unmarshal without the test `if buf.Len() != 0` that follows its loop
RECURSIVE UnmarshalLoopNoTrailing(_, _)
UnmarshalLoopNoTrailing(buf, o) ==
    IF Len(buf) >= 2
    THEN LET code == buf[1] IN
         IF code \in zeroLengthOptions
         THEN UnmarshalLoopNoTrailing(Tail(buf), AddRaw(o, code, <<>>))
         ELSE LET length == buf[2]
                  rest == SubSeq(buf, 3, Len(buf))
              IN IF length = 0
                 THEN UnmarshalLoopNoTrailing(rest, o)
                 ELSE IF Len(rest) < length
                 THEN [err |-> "ErrInvalidOptions", o |-> o]
                 ELSE UnmarshalLoopNoTrailing(
                          SubSeq(rest, length + 1, Len(rest)),
                          AddRaw(o, code, SubSeq(rest, 1, length)))
    ELSE [err |-> "nil", o |-> o]

\* Unmarshal without the test `if length == 0 { continue }`
RECURSIVE UnmarshalLoopRecordsEmpty(_, _)
UnmarshalLoopRecordsEmpty(buf, o) ==
    IF Len(buf) >= 2
    THEN LET code == buf[1] IN
         IF code \in zeroLengthOptions
         THEN UnmarshalLoopRecordsEmpty(Tail(buf), AddRaw(o, code, <<>>))
         ELSE LET length == buf[2]
                  rest == SubSeq(buf, 3, Len(buf))
              IN IF Len(rest) < length
                 THEN [err |-> "ErrInvalidOptions", o |-> o]
                 ELSE UnmarshalLoopRecordsEmpty(
                          SubSeq(rest, length + 1, Len(rest)),
                          AddRaw(o, code, SubSeq(rest, 1, length)))
    ELSE [err |-> IF Len(buf) # 0 THEN "ErrInvalidOptions" ELSE "nil", o |-> o]

\* Options.Unmarshal on the bytes buf, with *o = o so far: the error it returns
\* and the map it leaves in *o
RECURSIVE UnmarshalLoop(_, _)
UnmarshalLoop(buf, o) ==
    IF Len(buf) >= 2
    THEN LET code == buf[1] IN
         IF code \in zeroLengthOptions
         THEN UnmarshalLoop(Tail(buf), AddRaw(o, code, <<>>))
         ELSE LET length == buf[2]
                  rest == SubSeq(buf, 3, Len(buf))
              IN IF length = 0
                 THEN UnmarshalLoop(rest, o)
                 ELSE IF Len(rest) < length
                 THEN [err |-> "ErrInvalidOptions", o |-> o]
                 ELSE UnmarshalLoop(SubSeq(rest, length + 1, Len(rest)),
                                    AddRaw(o, code, SubSeq(rest, 1, length)))
    ELSE [err |-> IF Len(buf) # 0 THEN "ErrInvalidOptions" ELSE "nil", o |-> o]
Unmarshal(buf) == UnmarshalLoop(buf, EmptyOptions)

\* for len(data) >= 0
LoopCond(d) == Len(d) >= 0

\* the codes still to write, from the first one whose chunking loop is entered
RECURSIVE Enter(_, _)
Enter(cs, o) ==
    IF cs = <<>> THEN <<>>
    ELSE IF LoopCond(o[Head(cs)]) THEN cs
    ELSE Enter(Tail(cs), o)

\* the inputs tried: a value of n bytes under code c, and the maps built of them
Value(n, c) == [k \in 1 .. n |-> (c + k) % 256]
OptionCodes == {Pad, 12, 53, End}
ValueSizes == {0, 1, 2, 255, 256, 600}
OptionInputs ==
    { [c \in D |-> IF c \in zeroLengthOptions THEN <<>> ELSE Value(n, c)] :
        D \in SUBSET OptionCodes, n \in ValueSizes }
WireBytes == {Pad, 1, 2, 53, End}
RECURSIVE SeqsUpTo(_)
SeqsUpTo(n) ==
    IF n = 0 THEN {<<>>}
    ELSE LET shorter == SeqsUpTo(n - 1)
         IN shorter \cup { Append(q, x) : q \in {r \in shorter : Len(r) = n - 1},
                                               x \in WireBytes }
WireInputs == SeqsUpTo(MaxBufLen)

\* one call of Options.Marshal or one call of Options.Unmarshal is about to run
OptionsInit ==
    /\ retry = 0
    /\ xid = 0
    /\ mode = "none"
    /\ wpc = "idle"
    /\ cpc = "idle"
    /\ ClientFresh
    /\ RequestIdle
    /\ task \in {"marshal", "unmarshal"}
    /\ emitted = 0
    /\ b = <<>>
    /\ ures = [err |-> "nil", o |-> EmptyOptions]
    /\ IF task = "marshal"
       THEN /\ opts \in OptionInputs
            /\ codes = Enter(sortedKeys(opts), opts)
            /\ data = IF codes = <<>> THEN <<>> ELSE opts[Head(codes)]
            /\ mpc = IF codes = <<>> THEN "done" ELSE "loop"
            /\ ubuf = <<>>
            /\ upc = "idle"
       ELSE /\ opts = EmptyOptions
            /\ codes = <<>>
            /\ data = <<>>
            /\ mpc = "idle"
            /\ ubuf \in WireInputs
            /\ upc = "call"

clientVars == <<retry, xid, mode, wpc, i, numPackets, timeoutCtx, ctxErr, out,
                outClosed, errCh, errClosed, pending, ret, cpc, response, result,
                taken, nmatched, writes, timeouts, errsSent, sentClosed, att, last,
                lastRead, requestVars>>

\* one run of the body of Marshal's chunking loop for the code Head(codes),
\* followed by the loop test and, when that fails, the move to the next code
MarshalStep ==
    /\ mpc = "loop"
    /\ Len(b) < MaxWire
    /\ LET code == Head(codes)
           n == IF Len(data) > MaxUint8 THEN MaxUint8 ELSE Len(data)
           left == IF code \in zeroLengthOptions
                   THEN data
                   ELSE SubSeq(data, n + 1, Len(data))
           after == IF LoopCond(left) THEN codes ELSE Enter(Tail(codes), opts)
       IN /\ b' = IF code \in zeroLengthOptions
                  THEN Append(b, code)
                  ELSE b \o <<code, n>> \o SubSeq(data, 1, n)
          /\ codes' = after
          /\ data' = IF LoopCond(left) THEN left
                     ELSE IF after = <<>> THEN <<>> ELSE opts[Head(after)]
          /\ emitted' = IF LoopCond(left) THEN emitted + 1 ELSE 0
          /\ mpc' = IF after = <<>> THEN "done" ELSE "loop"
    /\ UNCHANGED <<task, opts, ubuf, upc, ures>>
    /\ UNCHANGED clientVars

\* one call of Options.Unmarshal on the buffer ubuf
UnmarshalCall ==
    /\ upc = "call"
    /\ ures' = Unmarshal(ubuf)
    /\ upc' = "done"
    /\ UNCHANGED <<task, opts, codes, data, b, mpc, emitted, ubuf>>
    /\ UNCHANGED clientVars

OptionsNext ==
    \/ MarshalStep
    \/ UnmarshalCall

OptionsSpec == OptionsInit /\ [][OptionsNext]_vars

(***************************************************************************)
(* The packets the client builds: RequestPacket.                           *)
(***************************************************************************)
\* const maxMessageSize
maxMessageSize == 1500

\* o.Add(key, value), value given by the bytes its MarshalBinary returns
Add(o, key, value) == AddRaw(o, key, value)

\* the bytes of dhcp4opts.Uint16(n): two bytes, most significant first
Uint16(n) == <<(n \div 256) % 256, n % 256>>

\* dhcp4opts.GetServerIdentifier(o): an error when o carries no server identifier
GetServerIdentifier(o) ==
    IF "OptionServerIdentifier" \in DOMAIN o
    THEN [sid |-> o["OptionServerIdentifier"], err |-> "nil"]
    ELSE [sid |-> <<>>, err |-> "ErrOptionNotPresent"]

\* c.RequestPacket(p); rp is what `reply` denotes in
\* packet.TransactionID = reply.TransactionID
RequestPacket(p, rp) ==
    LET o1 == Add(EmptyOptions, "OptionDHCPMessageType", <<"DHCPRequest">>)
        o2 == Add(o1, "OptionMaximumDHCPMessageSize", Uint16(maxMessageSize))
        o3 == Add(o2, "OptionRequestedIPAddress", p.YIAddr)
        sid == GetServerIdentifier(p.Options)
        o4 == IF sid.err = "nil"
              THEN Add(o3, "OptionServerIdentifier", sid.sid)
              ELSE o3
    IN [NewPacket EXCEPT !.CHAddr = "HardwareAddr",
                         !.TransactionID = rp.TransactionID,
                         !.CIAddr = p.CIAddr,
                         !.SIAddr = p.SIAddr,
                         !.Broadcast = TRUE,
                         !.Options = o4]

\* the offers and acks tried, and the values `reply` may denote: the body of
\* RequestPacket declares no `reply`, so nothing ties it to the argument
Addrs == {<<10, 0, 0, 5>>, <<192, 168, 0, 1>>}
OfferOptions ==
    {EmptyOptions} \cup {[c \in {"OptionServerIdentifier"} |-> a] : a \in Addrs}
Offers ==
    {[NewPacket EXCEPT !.TransactionID = t, !.CIAddr = ci, !.SIAddr = si,
                       !.YIAddr = yi, !.Options = o] :
        t \in Xids, ci \in Addrs, si \in Addrs, yi \in Addrs, o \in OfferOptions}
Replies == [TransactionID : Xids]

\* one call of RequestPacket is about to run
RequestInit ==
    /\ retry = 0
    /\ xid = 0
    /\ mode = "none"
    /\ wpc = "idle"
    /\ cpc = "idle"
    /\ ClientFresh
    /\ CodecIdle
    /\ offer \in Offers
    /\ reply \in Replies
    /\ packet = NewPacket
    /\ rpc = "call"

\* packet := c.RequestPacket(offer)
RequestPacketCall ==
    /\ rpc = "call"
    /\ packet' = RequestPacket(offer, reply)
    /\ rpc' = "done"
    /\ UNCHANGED <<offer, reply>>
    /\ UNCHANGED <<retry, xid, mode, codecVars>>
    /\ UNCHANGED <<wpc, i, numPackets, timeoutCtx, ctxErr, pending, ret, nmatched,
                   writes, timeouts, att, last>>
    /\ UNCHANGED callerVars /\ UNCHANGED chanVars

RequestNext == RequestPacketCall

RequestSpec == RequestInit /\ [][RequestNext]_vars

(***************************************************************************)
(* The claims about the send/read worker and the retry policy.             *)
(***************************************************************************)
\* the worker has left retryFn and is returning
Ending == {"closeOut", "sendErr", "closeErr", "done"}

\* every packet the caller was or will be handed, in delivery order
Delivered == taken \o out

\* C1: with retry r >= 0, no matching response and no cancellation, the operation
\* reports DeadlineExceeded only after exactly r+1 attempts, each of which wrote
\* the packet once and ran to its attempt timeout.
C1_AttemptsBeforeDeadline ==
    (/\ wpc = "done"
     /\ retry >= 0
     /\ nmatched = 0
     /\ ctxErr = "none"
     /\ ret.Err = "DeadlineExceeded")
    => (writes = retry + 1 /\ timeouts = retry + 1)

\* C2: when the worker has ended, out and errCh are both closed; at most one
\* error is ever sent on errCh; nothing is sent on out after close(out).
C2_ChannelsClosed ==
    /\ (wpc = "done" => outClosed /\ errClosed)
    /\ errsSent <= 1
    /\ Len(errCh) <= ErrCap
    /\ ~sentClosed
\* the worker ended on a failed encode, with the one error sent and both channels closed
C2_Witness ==
    /\ wpc = "done"
    /\ ret.Err = "EncodeErr"
    /\ errsSent = 1
    /\ outClosed /\ errClosed

\* C3: only datagrams that decode with the outgoing TransactionID reach out;
\* a malformed or foreign datagram leaves the read loop running and is not
\* counted; an attempt that read no matching datagram and ran to its deadline
\* ends with DeadlineExceeded.
C3_State ==
    /\ \A k \in 1 .. Len(Delivered) : Delivered[k].xid = xid
    /\ \A k \in 1 .. Len(pending) : pending[k].xid = xid
    /\ Len(Delivered) + Len(pending) <= nmatched
    /\ wpc \in {"select", "read", "deliver"} => numPackets = att.m
    /\ (last.by = "DeadlineExceeded" /\ last.m = 0) => last.res = "DeadlineExceeded"
C3_JunkRead ==
    /\ wpc = "read"
    /\ wpc' # "read"
    /\ lastRead' \in {"malformed", "foreign"}
C3_OnlyMatchingDelivered ==
    /\ []C3_State
    /\ [][C3_JunkRead => /\ wpc' = "select"
                         /\ UNCHANGED <<numPackets, out, pending, nmatched>>]_vars
\* an attempt that read only malformed or foreign datagrams ran into its deadline
C3_Witness ==
    /\ last.by = "DeadlineExceeded"
    /\ last.junk
    /\ last.m = 0
    /\ last.res = "DeadlineExceeded"

\* C4: an attempt is followed by another one only if it failed with
\* DeadlineExceeded; any other result (nil, a write error, a read error,
\* Canceled) ends the operation with exactly that result, and once the worker
\* is returning no further attempt or packet write happens.
C4_State ==
    last.res \notin {"none", "DeadlineExceeded"}
    => (wpc \in Ending /\ ret = newClientErr(last.res))
C4_Returning ==
    wpc \in Ending => (wpc' \in Ending /\ writes' = writes /\ ret' = ret)
C4_RetryOnlyOnDeadline ==
    /\ []C4_State
    /\ [][C4_Returning]_vars
\* a hard read error ended the operation although retries were left
C4_Witness ==
    /\ wpc = "done"
    /\ last.res = "ReadErr"
    /\ ret.Err = "ReadErr"
    /\ i + 1 < retry

\* C5: whenever SendAndReadOne received a packet from out, it returns that
\* packet with a nil error.
C5_FirstMatchReturned ==
    (mode = "one" /\ cpc = "returned" /\ Len(taken) > 0)
    => (result.err = NilErr /\ result.packet = taken[1])

\* C6: once ctx is cancelled the worker eventually returns with out and errCh
\* closed, whatever it was doing and for every retry setting.
C6_CancelEndsWorker ==
    (ctxErr = "Canceled") ~> (wpc = "done" /\ outClosed /\ errClosed)
\* with unbounded retry, a delivery blocked on a full out was ended by the cancellation
C6_Witness ==
    /\ wpc = "done"
    /\ retry < 0
    /\ ctxErr = "Canceled"
    /\ last.by = "deliver"
    /\ Len(out) = OutCap
    /\ outClosed /\ errClosed

\* C7: an attempt that read at least one match and then met its deadline returns
\* nil, is not retried, and out has been given exactly the matches read.
C7_PartialSuccess ==
    (last.by = "DeadlineExceeded" /\ last.n > 0)
    => /\ last.res = "nil"
       /\ wpc \in Ending
       /\ ret = NilErr
       /\ Delivered = [k \in 1 .. nmatched |-> [xid |-> xid, seq |-> k]]
\* the worker ended without error after a deadline with matches delivered
C7_Witness ==
    /\ wpc = "done"
    /\ last.by = "DeadlineExceeded"
    /\ last.n > 1
    /\ Len(taken) > 0
    /\ errsSent = 0
    /\ errClosed

(***************************************************************************)
(* The claims about the options codec.                                     *)
(***************************************************************************)
\* the TLVs Marshal is to write for value v under code c: one code byte for
\* Pad and End, one code+length(0) pair for an empty value, else one per chunk
ExpectedTLVs(c, v) ==
    IF c \in zeroLengthOptions \/ Len(v) = 0 THEN 1
    ELSE (Len(v) + MaxUint8 - 1) \div MaxUint8

\* C8: Marshal's chunking loop runs its body once per chunk of at most 255
\* bytes (once for an empty value, once for Pad/End) and then stops, so that
\* Marshal terminates: while the loop of a code is still running, its body has
\* run fewer times than the code has TLVs.
C8_MarshalStops ==
    (task = "marshal" /\ mpc = "loop")
    => emitted < ExpectedTLVs(Head(codes), opts[Head(codes)])

\* every byte of every value of opts has been written to b
AllWritten ==
    \/ codes = <<>>
    \/ Len(codes) = 1 /\ data = <<>> /\ emitted >= 1

\* C9: for a map v of non-zero-length codes, once Marshal has written all of
\* v it has returned, and Unmarshal of what it wrote succeeds and gives v.
C9_RoundTrip ==
    (/\ task = "marshal"
     /\ DOMAIN opts \cap zeroLengthOptions = {}
     /\ AllWritten)
    => (mpc = "done" /\ Unmarshal(b) = [err |-> "nil", o |-> opts])

\* C10: a buffer made only of Pad and End codes (two or more of them) decodes
\* without error, one byte per code, to the map with an empty value for each
\* code in it; so 0x00 0xFF gives {Pad: [], End: []}.
C10_ZeroLengthCodes ==
    (/\ task = "unmarshal"
     /\ upc = "done"
     /\ Len(ubuf) >= 2
     /\ \A k \in 1 .. Len(ubuf) : ubuf[k] \in zeroLengthOptions)
    => ures = [err |-> "nil",
               o |-> [c \in {ubuf[k] : k \in 1 .. Len(ubuf)} |-> <<>>]]

\* the bytes of buf that follow its well-formed options: a Pad or End byte is an
\* option of one byte, any other code takes its length byte and that many bytes
RECURSIVE Leftover(_)
Leftover(buf) ==
    IF buf = <<>> THEN <<>>
    ELSE IF buf[1] \in zeroLengthOptions THEN Leftover(Tail(buf))
    ELSE IF Len(buf) >= 2 /\ buf[2] <= Len(buf) - 2
    THEN Leftover(SubSeq(buf, 3 + buf[2], Len(buf)))
    ELSE buf

\* the well-formed options of buf are all code/length/data options
RECURSIVE OnlyTLVs(_)
OnlyTLVs(buf) ==
    IF buf = <<>> THEN TRUE
    ELSE IF buf[1] \in zeroLengthOptions THEN FALSE
    ELSE IF Len(buf) >= 2 /\ buf[2] <= Len(buf) - 2
    THEN OnlyTLVs(SubSeq(buf, 3 + buf[2], Len(buf)))
    ELSE TRUE

\* C11: Unmarshal fails with ErrInvalidOptions whenever the bytes after the
\* well-formed options are a code and a declared length exceeding the bytes
\* that remain, or are one single byte; a stream of well-formed
\* code/length/data options with nothing left over decodes without error.
C11_MalformedStreams ==
    (task = "unmarshal" /\ upc = "done") =>
        /\ Leftover(ubuf) # <<>> => ures.err = "ErrInvalidOptions"
        /\ (Leftover(ubuf) = <<>> /\ OnlyTLVs(ubuf)) => ures.err = "nil"

\* a well-formed option followed by an option whose declared length exceeds
\* the bytes that remain has been decoded
C11_Witness ==
    /\ task = "unmarshal" /\ upc = "done"
    /\ Len(Leftover(ubuf)) >= 2
    /\ Len(Leftover(ubuf)) < Len(ubuf)
    /\ OnlyTLVs(ubuf)
    /\ ures.err = "ErrInvalidOptions"


\* the data bytes that the code/length/data options of buf carry under the
\* code c, in the order of the stream
RECURSIVE ValueOf(_, _)
ValueOf(buf, c) ==
    IF Len(buf) < 2 THEN <<>>
    ELSE (IF buf[1] = c THEN SubSeq(buf, 3, 2 + buf[2]) ELSE <<>>)
         \o ValueOf(SubSeq(buf, 3 + buf[2], Len(buf)), c)

\* C17: an occurrence `code, 0` of a non-zero-length code is no error and
\* records nothing: decoding a stream of code/length/data options, the decoded
\* Options has an entry for a code exactly when some occurrence of it carries
\* data, and the entry is the concatenation of the data of its occurrences.
C17_ZeroDeclaredLength ==
    (task = "unmarshal" /\ upc = "done"
        /\ OnlyTLVs(ubuf) /\ Leftover(ubuf) = <<>>) =>
        /\ ures.err = "nil"
        /\ \A c \in WireBytes \ zeroLengthOptions :
              IF ValueOf(ubuf, c) = <<>>
              THEN c \notin DOMAIN ures.o
              ELSE c \in DOMAIN ures.o /\ ures.o[c] = ValueOf(ubuf, c)

\* a stream in which the code 53 occurs once with one byte of data and once
\* with the declared length 0
C17_Witness ==
    /\ task = "unmarshal" /\ upc = "done"
    /\ ubuf = <<53, 1, 2, 53, 0>>
    /\ ures.err = "nil"
    /\ DOMAIN ures.o = {53}


\* C12: RequestPacket(p) returns a packet whose TransactionID, CIAddr and SIAddr
\* are p's, with Broadcast set, message type Request, the requested IP address
\* p.YIAddr, and a server identifier exactly when p carries one, with p's value.
C12_RequestPacketFields ==
    rpc = "done" =>
        /\ packet.TransactionID = offer.TransactionID
        /\ packet.CIAddr = offer.CIAddr
        /\ packet.SIAddr = offer.SIAddr
        /\ packet.Broadcast
        /\ packet.Options["OptionDHCPMessageType"] = <<"DHCPRequest">>
        /\ packet.Options["OptionRequestedIPAddress"] = offer.YIAddr
        /\ ("OptionServerIdentifier" \in DOMAIN packet.Options)
               <=> ("OptionServerIdentifier" \in DOMAIN offer.Options)
        /\ "OptionServerIdentifier" \in DOMAIN offer.Options =>
               packet.Options["OptionServerIdentifier"]
                   = offer.Options["OptionServerIdentifier"]


\* matches read that are neither with the consumer, nor buffered in out, nor
\* held by a blocked delivery
Undelivered == nmatched - Len(Delivered) - Len(pending)

\* a matching datagram is read: it goes to out at once when out has room, and
\* into a blocking delivery when out is full
C13_FirstNonBlocking ==
    nmatched' = nmatched + 1 =>
        IF Len(out) < OutCap
        THEN out' = Append(out, [xid |-> xid, seq |-> nmatched']) /\ wpc' = "select"
        ELSE pending' = <<[xid |-> xid, seq |-> nmatched']>> /\ wpc' = "deliver"

\* a blocked delivery ends by the packet going to out or with ctx done, and a
\* match is given up only by a blocked delivery with ctx done
C13_BlockedDelivery ==
    /\ (wpc = "deliver" /\ wpc' # "deliver") =>
           \/ out' = Append(out, pending[1])
           \/ ctxErr # "none" /\ wpc' \in {"retryFn", "closeOut"}
    /\ Undelivered' > Undelivered => (wpc = "deliver" /\ ctxErr # "none")

\* C13: every matching packet read is delivered on out, first without blocking
\* and, when out is full, by a delivery that blocks until the consumer makes
\* room or ctx is done; the attempt timeout never drops a match and never ends a
\* blocked delivery, so a match is not delivered only when ctx is done.
C13_MatchesDelivered ==
    /\ [](ctxErr = "none" => Undelivered = 0)
    /\ [](Undelivered \in {0, 1})
    /\ [][C13_FirstNonBlocking]_vars
    /\ [][C13_BlockedDelivery]_vars

\* the attempt timeout has elapsed during a blocked delivery, which goes on
C13_Witness ==
    /\ wpc = "deliver"
    /\ pending # <<>>
    /\ Len(out) = OutCap
    /\ timeoutCtx = "DeadlineExceeded"
    /\ timeouts >= 1
    /\ ctxErr = "none"


\* C14: matches appear on out in the order their datagrams were read, none
\* twice and none out of place: the packets handed over so far, followed by the
\* one a blocked delivery holds, are the first, second, ... match read, and
\* while the read loop runs with ctx not done, k matches read are k packets on
\* out, whichever of the two delivery paths each took.
C14_ReadOrder ==
    LET D == Delivered \o pending IN
    /\ \A k \in 1 .. Len(D) : D[k] = [xid |-> xid, seq |-> k]
    /\ (wpc \in {"select", "read"} /\ ctxErr = "none") => Len(Delivered) = nmatched

\* more matches than out holds were delivered, the last one by the blocking
\* send, after earlier ones went by the non-blocking one
C14_Witness ==
    /\ wpc = "select"
    /\ lastRead = "match-blocked"
    /\ nmatched = OutCap + 1
    /\ Len(Delivered) = nmatched
    /\ Len(taken) >= 1


\* the worker saw ctx's cancellation: at the head of the read loop
\* (timeoutCtx.Err() was Canceled) or in a blocked delivery
SawCancel ==
    \/ last.by = "Canceled"
    \/ last.by = "deliver" /\ ctxErr = "Canceled"

\* C15 as stated: whenever ctx is cancelled before the operation has ended on
\* its own, the operation surfaces Canceled on errCh, whether or not matches
\* were already delivered in the current attempt.
C15_CancelAlwaysSurfaced ==
    (wpc = "done" /\ SawCancel) => (ret.Err = "Canceled" /\ errsSent = 1)

\* C15, amended: when the worker sees the cancellation in a blocked delivery,
\* or at the head of the read loop in an attempt that has read no match, the
\* operation ends with Canceled, wrapped, as the one error sent on errCh; when
\* it sees it at the loop head after the attempt read a match, the operation
\* ends without error.
C15_CancelSurfaced ==
    /\ (SawCancel /\ (last.by = "deliver" \/ last.n = 0)) =>
           /\ last.res = "Canceled"
           /\ wpc \in Ending
           /\ ret = newClientErr("Canceled")
           /\ wpc \in {"closeErr", "done"} => errsSent = 1
    /\ (last.by = "Canceled" /\ last.n > 0) =>
           /\ last.res = "nil"
           /\ wpc \in Ending
           /\ ret = NilErr
           /\ errsSent = 0

\* a caller of SendAndRead cancelled ctx while the attempt had read nothing,
\* and the worker ended with Canceled on errCh
C15_Witness ==
    /\ mode = "stream"
    /\ wpc = "done"
    /\ last.by = "Canceled"
    /\ last.n = 0
    /\ errCh = <<newClientErr("Canceled")>>
    /\ errClosed


\* C16: when encoding the outgoing packet fails the operation ends at once with
\* that error wrapped with the link identity: nothing is written to or read
\* from the connection, no attempt is made, nothing is delivered on out, and
\* out and errCh are closed with the error as the one thing sent on errCh.
C16_EncodeFailure ==
    ret.Err = "EncodeErr" =>
        /\ ret = [Interface |-> "iface", Err |-> "EncodeErr"]
        /\ wpc \in Ending
        /\ writes = 0 /\ timeouts = 0 /\ timeoutCtx = "none"
        /\ i = 0 /\ last = NoLast /\ att = NoAttempt
        /\ lastRead = "none" /\ nmatched = 0 /\ numPackets = 0
        /\ Delivered = <<>> /\ pending = <<>>
        /\ wpc \in {"sendErr", "closeErr", "done"} => outClosed
        /\ wpc \in {"closeErr", "done"} => errsSent = 1
        /\ wpc = "done" => errClosed

\* SendAndReadOne returned the wrapped encode error of a worker that has ended
C16_Witness ==
    /\ mode = "one"
    /\ cpc = "returned"
    /\ wpc = "done"
    /\ result.err = [Interface |-> "iface", Err |-> "EncodeErr"]
    /\ result.packet = NilPkt
    /\ writes = 0


\* C18 as stated: SendAndReadOne returns only after its worker has ended and
\* closed errCh.
C18_ReturnsAfterClose ==
    (mode = "one" /\ cpc \in {"returned", "secondStep"}) =>
        (wpc = "done" /\ errClosed)

\* once SendAndReadOne has returned, its worker reads, writes and delivers
\* nothing more
C18_WorkerQuiet ==
    (mode = "one" /\ cpc \in {"returned", "secondStep"}) =>
        /\ wpc' \in {"closeErr", "done"}
        /\ UNCHANGED <<nmatched, numPackets, writes, lastRead, att, out, pending>>

\* C18, amended: SendAndReadOne returns only after its worker has left the
\* read loop and closed out, and returns without error only after the worker
\* has ended and closed errCh; so when the second step of Request() begins,
\* the first step's worker has ended, and it performs no read afterwards.
C18_OneWorker ==
    /\ [](mode = "one" /\ cpc \in {"returned", "secondStep"} =>
            /\ wpc \in {"closeErr", "done"}
            /\ outClosed /\ pending = <<>>
            /\ (result.err = NilErr => wpc = "done" /\ errClosed))
    /\ [](cpc = "secondStep" => wpc = "done" /\ outClosed /\ errClosed)
    /\ [][C18_WorkerQuiet]_vars

\* the second step of Request() has begun with the offer the first step
\* received
C18_Witness ==
    /\ cpc = "secondStep"
    /\ wpc = "done"
    /\ Len(taken) >= 1
    /\ result.packet = taken[1]
    /\ nmatched >= 2


\* C19: the operation ends without error only if at least one matching packet
\* was placed on out; when out is closed with no packet delivered, a non-nil
\* error is sent on errCh before errCh is closed; so SendAndReadOne never
\* returns a nil packet with a nil error and never dereferences a nil response.
C19_NilOnlyWithPacket ==
    /\ (wpc \in Ending /\ ret = NilErr) => Len(Delivered) >= 1
    /\ (wpc \in {"closeErr", "done"} /\ Delivered = <<>>) =>
           /\ ret # NilErr
           /\ errsSent = 1
           /\ Len(errCh) = 0 => (mode = "one" /\ cpc \in {"returned", "secondStep"})
    /\ (mode = "one" /\ cpc \in {"returned", "secondStep"}) =>
           /\ ~result.panic
           /\ ~(result.packet = NilPkt /\ result.err = NilErr)

\* SendAndReadOne found out closed and empty with retry = 0 and returned the
\* error it received from errCh
C19_Witness ==
    /\ mode = "one"
    /\ cpc = "returned"
    /\ retry = 0
    /\ response = NilPkt
    /\ result.packet = NilPkt
    /\ result.err = newClientErr("DeadlineExceeded")
    /\ Delivered = <<>>


\* C20: when ctx ends through its own deadline (ctx.Err() is DeadlineExceeded),
\* the operation still terminates for every retry setting, negative ones
\* included: the worker eventually ends with out and errCh closed.
C20_DeadlineEndsWorker ==
    (ctxErr = "DeadlineExceeded") ~> (wpc = "done" /\ outClosed /\ errClosed)

====
